---- MODULE Spec2Model ----
(***************************************************************************)
(* Orchestration core of the learner-attrition pipeline runner             *)
(* (src/src/main.py): PipelineRunner fans out into one per-course task,    *)
(* each of which reads the course schedule, computes the course week,      *)
(* hands the work to an execution strategy (in-process Pipeline or a       *)
(* Kubernetes job) and writes a flag at data/<course>/week_<n>/.           *)
(*                                                                         *)
(* The tasks are luigi tasks.  A luigi worker (i) asks complete(), i.e.    *)
(* output().exists(), of a task when it adds the task to the graph, before *)
(* any requirement of the task is looked at; (ii) runs run() as a          *)
(* generator: on `yield deps` it evaluates all(t.complete() for t in deps) *)
(* inside the yielding task's run(); if that is false it suspends the      *)
(* task, adds the deps, and later re-runs run() from its first line;       *)
(* (iii) an exception leaving run() makes that task FAILED.                *)
(*                                                                         *)
(* Dates are days of January 2017: day 9 is 2017-01-09.                    *)
(***************************************************************************)
EXTENDS Integers, Sequences, FiniteSets, TLC

\* ---------------------------------------------------------------- bounds
MaxDay == 9
MaxInvocations == 2
MaxRefDay == 17
MaxStartDay == 4

\* ------------------------------------------------------------- constants
HardcodedCourse == "Microsoft+DAT222x+4T2017"
OtherCourse == "MITx+6.00x+1T2017"
CourseIds == {OtherCourse, HardcodedCourse}
DaysPerWeek == 7
StartDateStr == "2017-01-02"
NoFile == "<no file>"
NoRow == "<no row>"
NoArgs == << >>
NoListing == <<NoFile>>
NoIdsFile == [date |-> 0, ids |-> NoListing]

\* The listings a course-id source can hold: every duplicate-free sequence.
Listings ==
  { << >>, <<OtherCourse>>, <<HardcodedCourse>>,
    <<OtherCourse, HardcodedCourse>>, <<HardcodedCourse, OtherCourse>> }

Range(s) == { s[i] : i \in 1..Len(s) }

\* ------------------------------------------------------- pure functions
\* datetime.strftime(d, '%Y-%m-%d') for a day of January 2017
strftime(d) == "2017-01-" \o (IF d < 10 THEN "0" ELSE "") \o ToString(d)

\* datetime.strptime(s, '%Y-%m-%d'): the day whose rendering is s
strptime(s) == CHOOSE d \in 1..31 : strftime(d) = s

\* common.course_week: whole weeks elapsed since the start, never negative
course_week(now, start) ==
  IF now < start THEN 0 ELSE (now - start) \div DaysPerWeek

\* 'data/{}/week_{}/'.format(course_id, week)
SuccessDirPath(c, w) == "data/" \o c \o "/week_" \o ToString(w) \o "/"

\* 'data/pipeline/{}/'.format(current_date_string)
DailyPath(d) == "data/pipeline/" \o strftime(d) \o "/"

FirstDay == strptime(StartDateStr) + DaysPerWeek - 1
Weeks == 0..course_week(MaxDay + 1, strptime(StartDateStr))

VARIABLES
  \* ---- state that outlives an invocation
  today,        \* the wall clock (day), read by today() and utcnow()
  listingFile,  \* top_course_ids.txt: a sequence of ids, or NoListing
  dbRows,       \* what the course-dates query returns for each course
  datesFile,    \* output of CourseDatesQueryTask(c): NoFile, NoRow or a date
  idsFile,      \* output of EdxCourseIdsTask: NoIdsFile or [date, ids]
  flags,        \* paths of the ADLFlagTarget flags that exist
  jobs,         \* job specs submitted to the cluster
  execCount,    \* strategy invocations per <<course, week>>
  invocations,  \* runner invocations started so far
  crashLog,     \* <<course, week>> whose invocation died after the strategy
                \* succeeded and before the flag was written
  outstanding,  \* per <<course, week>>: jobs on the cluster not yet terminal
  \* ---- state of the current invocation (one luigi process)
  phase,        \* "idle", "running", "exited"
  crashed,      \* the invocation was killed
  local,        \* PipelineRunner.local
  importDay,    \* the day EdxCourseIdsTask._current_date_string was computed
  runner,       \* status of PipelineRunner
  listing,      \* edx_course_ids read by PipelineRunner.run, or NoListing
  yielded,      \* the per-course tasks of the last yield of PipelineRunner.run
  st,           \* status of each per-course task
  loc,          \* the local variables of each per-course task's run()
  selfFields,   \* the attributes output() stores on each task object
  stratDone,    \* <<course, week>> whose strategy succeeded in this invocation
  specArgs,     \* SingleCourseKubernetesJobTask.spec_schema[..]["args"]
  schedRead,    \* courses whose per-course task has read the schedule
  datesResolved,\* courses whose CourseDatesTask the worker has resolved
  ranRun,       \* courses whose scheduled task has read the schedule in run()
  wrote         \* flag path the scheduled task of each course has written

persistent == <<today, listingFile, dbRows, datesFile, idsFile, flags, jobs,
                execCount, invocations, crashLog, outstanding>>
invocation == <<phase, crashed, local, importDay, runner, listing, yielded, st,
                loc, selfFields, stratDone, specArgs, schedRead,
                datesResolved, ranRun, wrote>>
vars == <<persistent, invocation>>

Unset == [start |-> 0, week |-> 0, path |-> ""]

\* _get_course_dates succeeds: the file opens and has a first row
GetCourseDatesOk(c) == datesFile[c] \notin {NoFile, NoRow}

\* _get_course_dates: CourseRunStartDate of the first row, parsed
GetCourseDates(c) == strptime(datesFile[c])

\* the three values run() and output() derive from the schedule and the clock
Derive_Swapped(c) ==
  LET start == GetCourseDates(c)
      week  == course_week(start, today)
  IN  [start |-> start, week |-> week, path |-> SuccessDirPath(c, week)]

Derive(c) ==
  LET start == GetCourseDates(c)
      week  == course_week(today, start)
  IN  [start |-> start, week |-> week, path |-> SuccessDirPath(c, week)]

\* output(): stores the derived values on the task and targets the flag
Output(c) == Derive(c)

\* complete(): output().exists()
Complete_Never(c) == FALSE

Complete(c) == Output(c).path \in flags

\* PipelineRunner.complete(): the flag of the current date exists
RunnerComplete == DailyPath(today) \in flags

Init ==
  /\ today = FirstDay
  /\ listingFile \in Listings \cup {NoListing}
  /\ dbRows \in [CourseIds -> {StartDateStr, NoRow}]
  /\ datesFile = [c \in CourseIds |-> NoFile]
  /\ idsFile = NoIdsFile
  /\ flags = {}
  /\ jobs = {}
  /\ execCount = [p \in CourseIds \X Weeks |-> 0]
  /\ invocations = 0
  /\ crashLog = {}
  /\ outstanding = [p \in CourseIds \X Weeks |-> 0]
  /\ phase = "idle"
  /\ crashed = FALSE
  /\ local = TRUE
  /\ importDay = FirstDay
  /\ runner = "none"
  /\ listing = NoListing
  /\ yielded = << >>
  /\ st = [c \in CourseIds |-> "none"]
  /\ loc = [c \in CourseIds |-> Unset]
  /\ selfFields = [c \in CourseIds |-> Unset]
  /\ stratDone = {}
  /\ specArgs = NoArgs
  /\ schedRead = {}
  /\ datesResolved = {}
  /\ ranRun = {}
  /\ wrote = [c \in CourseIds |-> ""]

\* The wall clock advances.
Tick ==
  /\ today < MaxDay
  /\ today' = today + 1
  /\ UNCHANGED <<listingFile, dbRows, datesFile, idsFile, flags, jobs,
                 execCount, invocations, crashLog, invocation>>
  /\ UNCHANGED outstanding

\* `luigi CourseDatesTask --course-id c`: requires CourseDatesQueryTask(c),
\* which writes the rows the query returns for c.
CourseDatesTask(c) ==
  /\ phase /= "running"
  /\ datesFile[c] = NoFile
  /\ datesFile' = [datesFile EXCEPT ![c] = dbRows[c]]
  /\ UNCHANGED <<today, listingFile, dbRows, idsFile, flags, jobs, execCount,
                 invocations, crashLog, invocation>>
  /\ UNCHANGED outstanding

\* AllCourseDatesTask: CourseDatesTask, hence CourseDatesQueryTask, for every
\* id of the top-course file; each writes the rows the query returns.
AllCourseDatesTask ==
  /\ phase /= "running"
  /\ listingFile /= NoListing
  /\ \E c \in Range(listingFile) : datesFile[c] = NoFile
  /\ datesFile' = [c \in CourseIds |->
                     IF c \in Range(listingFile) /\ datesFile[c] = NoFile
                     THEN dbRows[c] ELSE datesFile[c]]
  /\ UNCHANGED <<today, listingFile, dbRows, idsFile, flags, jobs, execCount,
                 invocations, crashLog, invocation>>
  /\ UNCHANGED outstanding

\* `luigi PipelineRunner [--local]`: a fresh process; the worker adds
\* PipelineRunner and asks its complete() first.
Start(l) ==
  /\ phase /= "running"
  /\ invocations < MaxInvocations
  /\ invocations' = invocations + 1
  /\ phase' = "running"
  /\ crashed' = FALSE
  /\ local' = l
  /\ importDay' = today
  /\ runner' = IF RunnerComplete THEN "complete" ELSE "pending"
  /\ listing' = NoListing
  /\ yielded' = << >>
  /\ st' = [c \in CourseIds |-> "none"]
  /\ loc' = [c \in CourseIds |-> Unset]
  /\ selfFields' = [c \in CourseIds |-> Unset]
  /\ stratDone' = {}
  /\ specArgs' = NoArgs
  /\ schedRead' = {}
  /\ datesResolved' = {}
  /\ ranRun' = {}
  /\ wrote' = [c \in CourseIds |-> ""]
  /\ UNCHANGED <<today, listingFile, dbRows, datesFile, idsFile, flags, jobs,
                 execCount, crashLog>>
  /\ UNCHANGED outstanding

\* PipelineRunner.requires(): the listing task must be complete before run().
\* EdxTopCourseIdsTask is external (complete iff the file exists);
\* EdxCourseIdsTask is complete iff its CSV of the import date exists, and
\* otherwise runs the query and writes the CSV, or fails.
RequireListing ==
  /\ phase = "running"
  /\ runner = "pending"
  /\ \/ /\ local
        /\ runner' = IF listingFile /= NoListing THEN "ready" ELSE "unfulfilled"
        /\ UNCHANGED idsFile
     \/ /\ ~local
        /\ idsFile.date = importDay
        /\ runner' = "ready"
        /\ UNCHANGED idsFile
     \/ /\ ~local
        /\ idsFile.date /= importDay
        /\ \E ids \in Listings : idsFile' = [date |-> importDay, ids |-> ids]
        /\ runner' = "ready"
     \/ /\ ~local
        /\ idsFile.date /= importDay
        /\ runner' = "unfulfilled"
        /\ UNCHANGED idsFile
  /\ UNCHANGED <<today, listingFile, dbRows, datesFile, flags, jobs, execCount,
                 invocations, crashLog>>
  /\ UNCHANGED <<phase, crashed, local, importDay, listing, yielded, st, loc,
                 selfFields, stratDone, specArgs, schedRead, datesResolved,
                 ranRun, wrote>>
  /\ UNCHANGED outstanding

\* all(t.complete() for t in kids), from the i-th task on, as luigi evaluates
\* it inside the yielding run(): it stops at the first task whose complete()
\* raises (its schedule cannot be read) or returns False; n is the last task
\* asked.
Scan_First(kids, i) ==
  IF i > Len(kids) THEN [res |-> "true", n |-> Len(kids)]
  ELSE IF ~GetCourseDatesOk(kids[i]) THEN [res |-> "raise", n |-> i]
  ELSE IF ~Complete(kids[i]) THEN [res |-> "false", n |-> i]
  ELSE [res |-> "true", n |-> i]

RECURSIVE Scan(_, _)
Scan(kids, i) ==
  IF i > Len(kids) THEN [res |-> "true", n |-> Len(kids)]
  ELSE IF ~GetCourseDatesOk(kids[i]) THEN [res |-> "raise", n |-> i]
  ELSE IF ~Complete(kids[i]) THEN [res |-> "false", n |-> i]
  ELSE Scan(kids, i + 1)

\* The task class PipelineRunner.run yields: `if self.local: ... else: ...`
TaskKind_AlwaysKube == "SingleCourseKubernetesJobTask"

TaskKind ==
  IF local THEN "SingleCourseLocalTask" ELSE "SingleCourseKubernetesJobTask"

\* The per-course tasks PipelineRunner.run yields.
Children(ids) == IF local THEN ids ELSE <<HardcodedCourse>>

\* PipelineRunner.run up to and including its yield.  It runs when the
\* listing is complete, and again from its first line when every task it
\* yielded is done.
RunnerRun ==
  /\ phase = "running"
  /\ \/ runner = "ready"
     \/ /\ runner = "suspended"
        /\ \A c \in Range(yielded) : st[c] \in {"complete", "done"}
  /\ LET ids   == IF local THEN listingFile ELSE idsFile.ids
         kids  == Children(ids)
         scan  == Scan(kids, 1)
         asked == { kids[i] : i \in 1..scan.n }
     IN  /\ listing' = ids
         /\ yielded' = kids
         /\ schedRead' = schedRead \cup asked
         /\ selfFields' = [c \in CourseIds |->
                             IF c \in asked /\ GetCourseDatesOk(c)
                             THEN Output(c) ELSE selfFields[c]]
         /\ runner' = CASE scan.res = "raise" -> "failed_yield"
                        [] scan.res = "true"  -> "marking"
                        [] scan.res = "false" -> "yielded"
  /\ UNCHANGED persistent
  /\ UNCHANGED <<phase, crashed, local, importDay, st, loc, stratDone,
                 specArgs, datesResolved, ranRun, wrote>>

\* The status the worker gives a task it adds: complete() raising leaves the
\* task UNKNOWN and unscheduled; a complete task is DONE; otherwise the task
\* is PENDING and its requirements are added.
AddStatus(c) ==
  IF ~GetCourseDatesOk(c) THEN "unknown"
  ELSE IF Complete(c) THEN "complete" ELSE "pending"

\* The worker adds the yielded tasks.  CourseDatesTask(c) is looked at only
\* now, for a task that became PENDING; its output, the dates file, exists.
WorkerAdd ==
  /\ phase = "running"
  /\ runner = "yielded"
  /\ runner' = "suspended"
  /\ st' = [c \in CourseIds |->
              IF c \in Range(yielded) THEN AddStatus(c) ELSE st[c]]
  /\ schedRead' = schedRead \cup Range(yielded)
  /\ selfFields' = [c \in CourseIds |->
                      IF c \in Range(yielded) /\ GetCourseDatesOk(c)
                      THEN Output(c) ELSE selfFields[c]]
  /\ datesResolved' = datesResolved \cup
                        { c \in Range(yielded) : AddStatus(c) = "pending" }
  /\ ranRun' = ranRun \ Range(yielded)
  /\ wrote' = [c \in CourseIds |->
                 IF c \in Range(yielded) THEN "" ELSE wrote[c]]
  /\ UNCHANGED persistent
  /\ UNCHANGED <<phase, crashed, local, importDay, listing, yielded, loc,
                 stratDone, specArgs>>

\* `yield Pipeline(path, course_id, start, week)`: run() passes the yield only
\* when the Pipeline task of these parameters is complete, which it is once
\* it has succeeded in this invocation.
PastYield_Always(c, w) == TRUE

PastYield(c, w) == <<c, w>> \in stratDone

\* The execution strategy is invoked for course c, week w: the Pipeline task
\* runs, or the Kubernetes job is created.
Invoke_IfNew(c, w) ==
  IF execCount[<<c, w>>] > 0 THEN execCount
  ELSE [execCount EXCEPT ![<<c, w>>] = @ + 1]

Invoke(c, w) == [execCount EXCEPT ![<<c, w>>] = @ + 1]

\* SingleCourseLocalTask.run up to and including its yield of Pipeline.
\* luigi lets run() pass the yield only when Pipeline of these parameters
\* is complete; otherwise it suspends the task and runs Pipeline.
LocalRun(c) ==
  /\ phase = "running"
  /\ TaskKind = "SingleCourseLocalTask"
  /\ st[c] = "pending"
  /\ schedRead' = schedRead \cup {c}
  /\ IF ~GetCourseDatesOk(c)
     THEN /\ st' = [st EXCEPT ![c] = "failed"]
          /\ UNCHANGED <<loc, selfFields, ranRun>>
     ELSE /\ loc' = [loc EXCEPT ![c] = Derive(c)]
          /\ selfFields' = [selfFields EXCEPT ![c] = Output(c)]
          /\ ranRun' = ranRun \cup {c}
          /\ st' = [st EXCEPT ![c] =
                      IF PastYield(c, Derive(c).week)
                      THEN "afterYield" ELSE "awaitPipeline"]
  /\ UNCHANGED persistent
  /\ UNCHANGED <<phase, crashed, local, importDay, runner, listing, yielded,
                 stratDone, specArgs, datesResolved, wrote>>

\* The Pipeline task yielded by SingleCourseLocalTask(c) runs: it succeeds,
\* and run() of c starts again from its first line, or it fails, and c is
\* left waiting for the rest of the invocation.
Pipeline(c) ==
  /\ phase = "running"
  /\ st[c] = "awaitPipeline"
  /\ execCount' = Invoke(c, loc[c].week)
  /\ \/ /\ stratDone' = stratDone \cup {<<c, loc[c].week>>}
        /\ st' = [st EXCEPT ![c] = "pending"]
     \/ /\ st' = [st EXCEPT ![c] = "blocked"]
        /\ UNCHANGED stratDone
  /\ UNCHANGED <<today, listingFile, dbRows, datesFile, idsFile, flags, jobs,
                 invocations, crashLog>>
  /\ UNCHANGED <<phase, crashed, local, importDay, runner, listing, yielded,
                 loc, selfFields, specArgs, schedRead, datesResolved, ranRun,
                 wrote>>
  /\ UNCHANGED outstanding

\* `with self.output().open('w') as output: output.write('')` of a
\* per-course task: output() derives the path anew; the write succeeds or
\* raises.
WriteFlag(c) ==
  /\ schedRead' = schedRead \cup {c}
  /\ IF ~GetCourseDatesOk(c)
     THEN /\ st' = [st EXCEPT ![c] = "failed"]
          /\ UNCHANGED <<flags, selfFields, wrote>>
     ELSE /\ selfFields' = [selfFields EXCEPT ![c] = Output(c)]
          /\ \/ /\ flags' = flags \cup {Output(c).path}
                /\ wrote' = [wrote EXCEPT ![c] = Output(c).path]
                /\ st' = [st EXCEPT ![c] = "done"]
             \/ /\ st' = [st EXCEPT ![c] = "failed"]
                /\ UNCHANGED <<flags, wrote>>
  /\ UNCHANGED <<today, listingFile, dbRows, datesFile, idsFile, jobs,
                 execCount, invocations, crashLog>>
  /\ UNCHANGED <<phase, crashed, local, importDay, runner, listing, yielded,
                 loc, stratDone, specArgs, datesResolved, ranRun>>
  /\ UNCHANGED outstanding

\* SingleCourseLocalTask.run after its yield
LocalMark(c) ==
  /\ phase = "running"
  /\ st[c] = "afterYield"
  /\ WriteFlag(c)

\* the positional arguments SingleCourseKubernetesJobTask.run builds
JobArgs_FromSelf(c, d) ==
  <<c, ToString(selfFields[c].week), strftime(selfFields[c].start),
    selfFields[c].path>>

JobArgs(c, d) == <<c, ToString(d.week), strftime(d.start), d.path>>

\* SingleCourseKubernetesJobTask.run up to super().run()
KubeRun(c) ==
  /\ phase = "running"
  /\ TaskKind = "SingleCourseKubernetesJobTask"
  /\ st[c] = "pending"
  /\ schedRead' = schedRead \cup {c}
  /\ IF ~GetCourseDatesOk(c)
     THEN /\ st' = [st EXCEPT ![c] = "failed"]
          /\ UNCHANGED <<loc, specArgs, ranRun>>
     ELSE /\ loc' = [loc EXCEPT ![c] = Derive(c)]
          /\ specArgs' = JobArgs(c, Derive(c))
          /\ ranRun' = ranRun \cup {c}
          /\ st' = [st EXCEPT ![c] = "submitting"]
  /\ UNCHANGED persistent
  /\ UNCHANGED <<phase, crashed, local, importDay, runner, listing, yielded,
                 selfFields, stratDone, datesResolved, wrote>>

\* KubernetesJobTask.run: creates the job from spec_schema
KubeSubmit(c) ==
  /\ phase = "running"
  /\ st[c] = "submitting"
  /\ jobs' = jobs \cup {[task |-> c, own |-> loc[c], args |-> specArgs]}
  /\ execCount' = Invoke(c, loc[c].week)
  /\ outstanding' = [outstanding EXCEPT ![<<c, loc[c].week>>] = @ + 1]
  /\ st' = [st EXCEPT ![c] = "polling"]
  /\ UNCHANGED <<today, listingFile, dbRows, datesFile, idsFile, flags,
                 invocations, crashLog>>
  /\ UNCHANGED <<phase, crashed, local, importDay, runner, listing, yielded,
                 loc, selfFields, stratDone, specArgs, schedRead,
                 datesResolved, ranRun, wrote>>

\* KubernetesJobTask polls the job until it is terminal: success
JobSucceeds(c) ==
  /\ phase = "running"
  /\ st[c] = "polling"
  /\ stratDone' = stratDone \cup {<<c, loc[c].week>>}
  /\ st' = [st EXCEPT ![c] = "signal"]
  /\ outstanding' = [outstanding EXCEPT ![<<c, loc[c].week>>] = @ - 1]
  /\ UNCHANGED <<today, listingFile, dbRows, datesFile, idsFile, flags, jobs,
                 execCount, invocations, crashLog>>
  /\ UNCHANGED <<phase, crashed, local, importDay, runner, listing, yielded,
                 loc, selfFields, specArgs, schedRead, datesResolved, ranRun,
                 wrote>>

\* ... or failure, which raises out of run()
JobFails(c) ==
  /\ phase = "running"
  /\ st[c] = "polling"
  /\ st' = [st EXCEPT ![c] = "failed"]
  /\ outstanding' = [outstanding EXCEPT ![<<c, loc[c].week>>] = @ - 1]
  /\ UNCHANGED <<today, listingFile, dbRows, datesFile, idsFile, flags, jobs,
                 execCount, invocations, crashLog>>
  /\ UNCHANGED <<phase, crashed, local, importDay, runner, listing, yielded,
                 loc, selfFields, stratDone, specArgs, schedRead,
                 datesResolved, ranRun, wrote>>

\* The jobs of <<course, week>> p that a running task is polling.
Polled(p) ==
  IF phase = "running" /\ st[p[1]] = "polling" /\ loc[p[1]].week = p[2]
  THEN 1 ELSE 0

\* A job whose submitting process is gone runs on independently on the
\* cluster and reaches a terminal state there.
OrphanJobEnds(p) ==
  /\ outstanding[p] > Polled(p)
  /\ outstanding' = [outstanding EXCEPT ![p] = @ - 1]
  /\ UNCHANGED <<today, listingFile, dbRows, datesFile, idsFile, flags, jobs,
                 execCount, invocations, crashLog, invocation>>

\* SingleCourseKubernetesJobTask.signal_complete
SignalComplete(c) ==
  /\ phase = "running"
  /\ st[c] = "signal"
  /\ WriteFlag(c)

\* PipelineRunner.run after its yield: writes the flag of the current date
RunnerMark ==
  /\ phase = "running"
  /\ runner = "marking"
  /\ \/ /\ flags' = flags \cup {DailyPath(today)}
        /\ runner' = "done"
     \/ /\ runner' = "failed_write"
        /\ UNCHANGED flags
  /\ UNCHANGED <<today, listingFile, dbRows, datesFile, idsFile, jobs,
                 execCount, invocations, crashLog>>
  /\ UNCHANGED <<phase, crashed, local, importDay, listing, yielded, st, loc,
                 selfFields, stratDone, specArgs, schedRead, datesResolved,
                 ranRun, wrote>>
  /\ UNCHANGED outstanding

\* <<course, week>> whose strategy succeeded in this invocation while the
\* flag of that course and week does not exist
ExecutedUnmarked ==
  { p \in stratDone : SuccessDirPath(p[1], p[2]) \notin flags }

\* Nothing is left that the worker could run.
Quiescent ==
  \/ runner \in {"complete", "unfulfilled", "failed_yield", "failed_write",
                 "done"}
  \/ /\ runner = "suspended"
     /\ \A c \in Range(yielded) :
          st[c] \in {"unknown", "complete", "done", "failed", "blocked"}
     /\ \E c \in Range(yielded) : st[c] \notin {"complete", "done"}

\* The luigi process ends by itself.
Exit ==
  /\ phase = "running"
  /\ Quiescent
  /\ phase' = "exited"
  /\ crashLog' = crashLog \cup ExecutedUnmarked
  /\ UNCHANGED <<today, listingFile, dbRows, datesFile, idsFile, flags, jobs,
                 execCount, invocations>>
  /\ UNCHANGED <<crashed, local, importDay, runner, listing, yielded, st, loc,
                 selfFields, stratDone, specArgs, schedRead, datesResolved,
                 ranRun, wrote>>
  /\ UNCHANGED outstanding

\* The luigi process is killed at an arbitrary point.
Crash ==
  /\ phase = "running"
  /\ ~Quiescent
  /\ phase' = "exited"
  /\ crashed' = TRUE
  /\ crashLog' = crashLog \cup ExecutedUnmarked
  /\ UNCHANGED <<today, listingFile, dbRows, datesFile, idsFile, flags, jobs,
                 execCount, invocations>>
  /\ UNCHANGED <<local, importDay, runner, listing, yielded, st, loc,
                 selfFields, stratDone, specArgs, schedRead, datesResolved,
                 ranRun, wrote>>
  /\ UNCHANGED outstanding

Next ==
  \/ Tick
  \/ AllCourseDatesTask
  \/ \E c \in CourseIds : CourseDatesTask(c)
  \/ \E l \in BOOLEAN : Start(l)
  \/ RequireListing
  \/ RunnerRun
  \/ WorkerAdd
  \/ \E c \in CourseIds : LocalRun(c)
  \/ \E c \in CourseIds : Pipeline(c)
  \/ \E c \in CourseIds : LocalMark(c)
  \/ \E c \in CourseIds : KubeRun(c)
  \/ \E c \in CourseIds : KubeSubmit(c)
  \/ \E c \in CourseIds : JobSucceeds(c)
  \/ \E c \in CourseIds : JobFails(c)
  \/ \E p \in CourseIds \X Weeks : OrphanJobEnds(p)
  \/ \E c \in CourseIds : SignalComplete(c)
  \/ RunnerMark
  \/ Exit
  \/ Crash

Spec == Init /\ [][Next]_vars

\* ------------------------------------------------------------ scheduling
\* The luigi worker is a loop that runs the next task that can run until
\* none is left, and the process then ends: every step of the worker that
\* stays possible is taken.  Nothing obliges the cluster to bring a job to
\* a terminal state, the clock to pass a given day, an operator to start
\* another invocation, or the process to be killed.
WorkerFairness ==
  /\ WF_vars(RequireListing)
  /\ WF_vars(RunnerRun)
  /\ WF_vars(WorkerAdd)
  /\ WF_vars(RunnerMark)
  /\ WF_vars(Exit)
  /\ \A c \in CourseIds :
       /\ WF_vars(LocalRun(c))
       /\ WF_vars(Pipeline(c))
       /\ WF_vars(LocalMark(c))
       /\ WF_vars(KubeRun(c))
       /\ WF_vars(KubeSubmit(c))
       /\ WF_vars(SignalComplete(c))

LiveSpec == Init /\ [][Next]_vars /\ WorkerFairness

\* ------------------------------------------------- the week computation
\* The completion check alone, over a range of reference days and start
\* dates: the clock and the schedules are arbitrary, nothing else runs.
InitWeek ==
  /\ today \in 1..MaxRefDay
  /\ listingFile = << >>
  /\ dbRows = [c \in CourseIds |-> StartDateStr]
  /\ datesFile \in [CourseIds -> { strftime(d) : d \in 1..MaxStartDay }]
  /\ idsFile = NoIdsFile
  /\ flags = {}
  /\ jobs = {}
  /\ execCount = [p \in CourseIds \X Weeks |-> 0]
  /\ invocations = 0
  /\ crashLog = {}
  /\ outstanding = [p \in CourseIds \X Weeks |-> 0]
  /\ phase = "idle"
  /\ crashed = FALSE
  /\ local = TRUE
  /\ importDay = FirstDay
  /\ runner = "none"
  /\ listing = NoListing
  /\ yielded = << >>
  /\ st = [c \in CourseIds |-> "none"]
  /\ loc = [c \in CourseIds |-> Unset]
  /\ selfFields = [c \in CourseIds |-> Unset]
  /\ stratDone = {}
  /\ specArgs = NoArgs
  /\ schedRead = {}
  /\ datesResolved = {}
  /\ ranRun = {}
  /\ wrote = [c \in CourseIds |-> ""]

\* The wall clock advances.
WeekTick ==
  /\ today < MaxRefDay
  /\ today' = today + 1
  /\ UNCHANGED <<listingFile, dbRows, datesFile, idsFile, flags, jobs,
                 execCount, invocations, crashLog, outstanding, invocation>>

\* output() of the per-course task of c is called.
WeekOutput(c) ==
  /\ selfFields' = [selfFields EXCEPT ![c] = Output(c)]
  /\ UNCHANGED persistent
  /\ UNCHANGED <<phase, crashed, local, importDay, runner, listing, yielded,
                 st, loc, stratDone, specArgs, schedRead, datesResolved,
                 ranRun, wrote>>

NextWeek ==
  \/ WeekTick
  \/ \E c \in CourseIds : WeekOutput(c)

SpecWeek == InitWeek /\ [][NextWeek]_vars

\* ------------------------------------------- concurrent Kubernetes tasks
\* PipelineRunner yields one SingleCourseKubernetesJobTask, so two of them
\* for different courses run at the same time only as two luigi processes,
\* each started by luigi.run() with SingleCourseKubernetesJobTask(c) as its
\* root task.  A luigi process runs its tasks one after the other in its
\* own memory.  Here phase stays "running", st[c] is the status of the task
\* of the process of course c, and specArgs[c] is the "args" entry of the
\* class attribute spec_schema in the memory of that process.

\* The memory that holds the class attribute spec_schema which the task of
\* course c assigns to and submits from: that of its own process.
SchemaOf_Shared(c) == HardcodedCourse

SchemaOf(c) == c

InitProcs ==
  /\ today = FirstDay
  /\ listingFile = << >>
  /\ dbRows = [c \in CourseIds |-> StartDateStr]
  /\ datesFile \in [CourseIds -> {StartDateStr, NoRow}]
  /\ idsFile = NoIdsFile
  /\ flags = {}
  /\ jobs = {}
  /\ execCount = [p \in CourseIds \X Weeks |-> 0]
  /\ invocations = 0
  /\ crashLog = {}
  /\ outstanding = [p \in CourseIds \X Weeks |-> 0]
  /\ phase = "running"
  /\ crashed = FALSE
  /\ local = FALSE
  /\ importDay = FirstDay
  /\ runner = "none"
  /\ listing = NoListing
  /\ yielded = << >>
  /\ st = [c \in CourseIds |-> "none"]
  /\ loc = [c \in CourseIds |-> Unset]
  /\ selfFields = [c \in CourseIds |-> Unset]
  /\ stratDone = {}
  /\ specArgs = [c \in CourseIds |-> NoArgs]
  /\ schedRead = {}
  /\ datesResolved = {}
  /\ ranRun = {}
  /\ wrote = [c \in CourseIds |-> ""]

\* luigi.run() with root task SingleCourseKubernetesJobTask(c): a new
\* process, whose worker adds the task.
ProcStart(c) ==
  /\ st[c] = "none"
  /\ invocations < MaxInvocations
  /\ invocations' = invocations + 1
  /\ st' = [st EXCEPT ![c] = AddStatus(c)]
  /\ schedRead' = schedRead \cup {c}
  /\ selfFields' = [selfFields EXCEPT ![c] =
                      IF GetCourseDatesOk(c) THEN Output(c) ELSE @]
  /\ specArgs' = [specArgs EXCEPT ![c] = NoArgs]
  /\ wrote' = [wrote EXCEPT ![c] = ""]
  /\ UNCHANGED <<today, listingFile, dbRows, datesFile, idsFile, flags, jobs,
                 execCount, crashLog, outstanding>>
  /\ UNCHANGED <<phase, crashed, local, importDay, runner, listing, yielded,
                 loc, stratDone, datesResolved, ranRun>>

\* SingleCourseKubernetesJobTask.run up to super().run(), in its process
ProcKubeRun(c) ==
  /\ st[c] = "pending"
  /\ loc' = [loc EXCEPT ![c] = Derive(c)]
  /\ specArgs' = [specArgs EXCEPT ![SchemaOf(c)] = JobArgs(c, Derive(c))]
  /\ ranRun' = ranRun \cup {c}
  /\ st' = [st EXCEPT ![c] = "submitting"]
  /\ UNCHANGED persistent
  /\ UNCHANGED <<phase, crashed, local, importDay, runner, listing, yielded,
                 selfFields, stratDone, schedRead, datesResolved, wrote>>

\* KubernetesJobTask.run: creates the job from spec_schema, in its process
ProcKubeSubmit(c) ==
  /\ st[c] = "submitting"
  /\ jobs' = jobs \cup
               {[task |-> c, own |-> loc[c], args |-> specArgs[SchemaOf(c)]]}
  /\ execCount' = Invoke(c, loc[c].week)
  /\ outstanding' = [outstanding EXCEPT ![<<c, loc[c].week>>] = @ + 1]
  /\ st' = [st EXCEPT ![c] = "polling"]
  /\ UNCHANGED <<today, listingFile, dbRows, datesFile, idsFile, flags,
                 invocations, crashLog>>
  /\ UNCHANGED <<phase, crashed, local, importDay, runner, listing, yielded,
                 loc, selfFields, stratDone, specArgs, schedRead,
                 datesResolved, ranRun, wrote>>

\* The process of course c ends when its worker has nothing left to run.
ProcExit(c) ==
  /\ st[c] \in {"unknown", "complete", "done", "failed"}
  /\ st' = [st EXCEPT ![c] = "none"]
  /\ UNCHANGED persistent
  /\ UNCHANGED <<phase, crashed, local, importDay, runner, listing, yielded,
                 loc, selfFields, stratDone, specArgs, schedRead,
                 datesResolved, ranRun, wrote>>

NextProcs ==
  \/ Tick
  \/ \E c \in CourseIds : ProcStart(c)
  \/ \E c \in CourseIds : ProcKubeRun(c)
  \/ \E c \in CourseIds : ProcKubeSubmit(c)
  \/ \E c \in CourseIds : JobSucceeds(c)
  \/ \E c \in CourseIds : JobFails(c)
  \/ \E c \in CourseIds : SignalComplete(c)
  \/ \E c \in CourseIds : ProcExit(c)

SpecProcs == InitProcs /\ [][NextProcs]_vars

\* ------------------------------------------------------------ properties
Pairs == CourseIds \X Weeks
FlagOf(p) == SuccessDirPath(p[1], p[2])
PerCourseFailed(c) == st[c] \in {"unknown", "failed", "blocked"}

\* C1: a per-course task writes its completion flag only after its run()
\* read the schedule and the execution strategy succeeded, in this
\* invocation, for the week that run() computed; a task is done exactly when
\* it wrote its flag, and a task whose schedule lookup, execution or flag
\* write failed has written no flag.
C1_FlagOnlyAfterWork ==
  \A c \in CourseIds :
    /\ wrote[c] /= "" =>
         /\ c \in ranRun
         /\ <<c, loc[c].week>> \in stratDone
         /\ wrote[c] \in flags
    /\ st[c] = "done" <=> wrote[c] /= ""
    /\ PerCourseFailed(c) => wrote[c] = ""

C1_Witness ==
  \E c \in CourseIds : \E d \in CourseIds \ {c} :
    /\ st[c] = "done" /\ wrote[c] \in flags
    /\ st[d] = "blocked" /\ wrote[d] = ""

\* C2: when run() of a per-course task succeeds, the completion check of the
\* task is true; and once the flag of a course and week exists it stays, and
\* the execution strategy is not invoked for that course and week again.
C2_NoReexecution ==
  [][/\ \A c \in CourseIds :
          (st[c] /= "done" /\ st'[c] = "done") => Complete(c)'
     /\ \A p \in Pairs :
          FlagOf(p) \in flags =>
            /\ FlagOf(p) \in flags'
            /\ execCount'[p] = execCount[p]]_vars

C2_Witness ==
  \E c \in CourseIds :
    /\ invocations = 2
    /\ st[c] = "complete"
    /\ selfFields[c].path \in flags
    /\ execCount[<<c, selfFields[c].week>>] = 1

\* C3: when an invocation stopped after the strategy succeeded for a course
\* and week and before the flag was written, the flag of that course and week
\* can only come to exist after the strategy was invoked for it again.
C3_RerunAfterCrash ==
  \A p \in crashLog : FlagOf(p) \in flags => execCount[p] >= 2

C3_Witness ==
  \E p \in crashLog :
    /\ FlagOf(p) \in flags
    /\ execCount[p] = 2
    /\ st[p[1]] = "done"

\* C4 (as claimed): when an invocation in local mode has nothing left to run,
\* the schedule of exactly one listed course has no row, the schedule of
\* every other listed course can be read, and no other listed course failed
\* in its execution or flag write, every other listed course has its flag.
C4_Claim ==
  ( /\ phase = "running" /\ Quiescent /\ local
    /\ runner \notin {"complete", "unfulfilled"}
    /\ Cardinality({ c \in Range(listing) : datesFile[c] = NoRow }) = 1
    /\ \A c \in Range(listing) : datesFile[c] /= NoFile )
  => \A c \in Range(listing) :
       (GetCourseDatesOk(c) /\ st[c] \notin {"failed", "blocked"})
         => st[c] \in {"complete", "done"}

\* C5 (as claimed): once PipelineRunner.run has yielded, the per-course
\* tasks it yielded are exactly the course ids it read from the listing.
C5_Claim ==
  runner \in {"yielded", "suspended", "marking", "done", "failed_write"}
    => Range(yielded) = Range(listing)

\* C6 (as claimed): PipelineRunner is failed only when the listing failed.
C6_Claim ==
  runner \in {"unfulfilled", "failed_yield", "failed_write"}
    => runner = "unfulfilled"

\* C7 (as claimed): a per-course task whose own flag is absent is run even
\* when the flag of the current date exists: the runner is never skipped as
\* complete while a task it would yield has a readable schedule and no flag.
C7_Claim ==
  ( /\ phase = "running" /\ runner = "complete" /\ today = importDay
    /\ local => listingFile /= NoListing )
  => \A c \in Range(Children(listingFile)) :
       GetCourseDatesOk(c) => Complete(c)

\* C8 (as claimed): a remote job is submitted for a course only after the
\* listing of the import date was resolved, and only for a course of that
\* listing.
C8_Claim ==
  \A c \in CourseIds :
    (~local /\ st[c] \in {"polling", "signal"})
      => /\ idsFile.date = importDay
         /\ c \in Range(idsFile.ids)

\* C9 (as claimed): a per-course task reads the schedule of its course only
\* after the CourseDatesTask of that course was resolved.
C9_Claim == schedRead \subseteq datesResolved

\* C10: every submitted job spec carries exactly four positional arguments:
\* the submitting task's course id, the week its run() computed (a week of
\* a day of this invocation), the start date of its schedule as written in
\* the schedule, and the flag path of that course and week.
C10_JobArgs ==
  \A j \in jobs :
    /\ Len(j.args) = 4
    /\ j.args[1] = j.task
    /\ j.args[2] = ToString(j.own.week)
    /\ j.args[3] = datesFile[j.task]
    /\ j.args[4] = SuccessDirPath(j.task, j.own.week)
    /\ \E d \in FirstDay..today :
         j.own.week = course_week(d, strptime(datesFile[j.task]))

C10_Witness ==
  \E j \in jobs : \E k \in jobs :
    /\ j.task = k.task
    /\ j.own.week = 0
    /\ k.own.week = 1

\* C11: the execution strategy follows the run mode alone: a per-course task
\* is in the in-process Pipeline path only in an invocation with local set,
\* it is in the Kubernetes job path, and a job is submitted, only in an
\* invocation with local unset, and local does not change while the
\* invocation runs.
C11_StrategyByMode ==
  [][/\ \A c \in CourseIds :
          /\ st'[c] \in {"awaitPipeline", "afterYield"} => local'
          /\ st'[c] \in {"submitting", "polling", "signal"} => ~local'
     /\ jobs' /= jobs => ~local
     /\ (phase = "running" /\ phase' = "running") => local' = local]_vars

C11_Witness ==
  /\ ~local
  /\ st[HardcodedCourse] = "polling"
  /\ execCount[<<OtherCourse, 0>>] = 1
  /\ jobs /= {}

\* C12 (as claimed): at any moment at most one job per course and week is
\* outstanding on the cluster.
C12_Claim == \A p \in Pairs : outstanding[p] <= 1

\* C13: the week a completion check stores, and builds the flag path from,
\* is the number of whole 7-day periods from the start date to the
\* reference day, 0 when the reference day is not after the start date,
\* never negative, and never smaller than the week an earlier check of the
\* same task stored; for start 2017-01-02 it is 0 on 2017-01-01, 1 on
\* 2017-01-09 and on 2017-01-15, and 2 on 2017-01-16.
C13_WeekIndex ==
  [][\A c \in CourseIds :
       LET w == selfFields'[c].week
           s == strptime(datesFile[c])
       IN  /\ selfFields'[c] /= selfFields[c] =>
                /\ w >= 0
                /\ today <= s => w = 0
                /\ today > s => (7 * w <= today - s /\ today - s < 7 * (w + 1))
                /\ selfFields'[c].path = SuccessDirPath(c, w)
                /\ datesFile[c] = "2017-01-02" =>
                     /\ today = 1 => w = 0
                     /\ today = 9 => w = 1
                     /\ today = 15 => w = 1
                     /\ today = 16 => w = 2
           /\ selfFields[c] /= Unset => w >= selfFields[c].week]_vars

C13_Witness ==
  \E c \in CourseIds : \E d \in CourseIds \ {c} :
    /\ today = 16
    /\ datesFile[c] = "2017-01-02"
    /\ selfFields[c].week = 2
    /\ selfFields[c].path = SuccessDirPath(c, 2)
    /\ datesFile[d] = "2017-01-04"
    /\ selfFields[d].start = 4
    /\ selfFields[d].week = 0

\* C14 (as claimed): a call of output() is a pure read: a step that is not
\* a clock tick, that is a completion check, leaves the flags and every
\* attribute of every task object unchanged.
C14_Claim ==
  [][today' = today => (flags' = flags /\ selfFields' = selfFields)]_vars

\* C16 (as claimed): the flag a per-course task writes at the end of run()
\* is the flag of the course and week that run() computed at its start and
\* handed to the execution strategy as its output path.
C16_Claim ==
  \A c \in CourseIds : wrote[c] /= "" => wrote[c] = loc[c].path

\* C18 (as claimed): a flag written by one task is never read as completion
\* of a task of another kind: when PipelineRunner.run passes its yield of
\* SingleCourseKubernetesJobTask instances, which it does when each of them
\* is complete, a job of each of their courses was created at some time.
C18_Claim ==
  (phase = "running" /\ TaskKind = "SingleCourseKubernetesJobTask"
     /\ runner \in {"marking", "done"})
    => \A c \in Range(yielded) : \E j \in jobs : j.task = c

\* C19: PipelineRunner writes its daily flag only as the last step of run(),
\* after the listing was read and every per-course task it yielded was
\* complete: a step that adds a daily flag is the last step of a
\* PipelineRunner.run that read the listing and yielded tasks from it, it
\* adds the flag of the current date and nothing else, and the flag that the
\* completion check of each yielded task looked for exists.
C19_DailyFlagLast ==
  [][(\E d \in FirstDay..MaxDay : DailyPath(d) \in flags' \ flags)
       => /\ phase = "running" /\ runner = "marking" /\ runner' = "done"
          /\ flags' = flags \cup {DailyPath(today)}
          /\ listing /= NoListing
          /\ yielded = Children(listing)
          /\ \A c \in Range(yielded) :
               /\ selfFields[c] /= Unset
               /\ selfFields[c].path
                    = SuccessDirPath(c, selfFields[c].week)
               /\ selfFields[c].path \in flags]_vars

C19_Witness ==
  /\ runner = "done"
  /\ DailyPath(today) \in flags
  /\ Len(yielded) = 2
  /\ \A c \in Range(yielded) : st[c] = "done" /\ wrote[c] \in flags

\* C15 (as claimed): a remote per-course task never waits forever: once
\* SingleCourseKubernetesJobTask.run has created its job and polls it, the
\* task is eventually done or failed, unless the process is killed.
C15_Claim ==
  \A c \in CourseIds :
    (phase = "running" /\ st[c] = "polling")
      ~> (st[c] \in {"done", "failed"} \/ phase /= "running")

====
